---- MODULE Spec2Model ----
(***************************************************************************)
(* Kapua: the relational data model of src/courses/models.py and           *)
(* src/students/models.py as a state machine.                              *)
(*                                                                         *)
(* The state is the database: one table per model class, a table being a   *)
(* function from primary keys to rows.  An action is one request of the    *)
(* single-threaded request/response cycle: it builds or loads an instance, *)
(* runs the class's save() or delete(), and commits.  Field declarations   *)
(* (ForeignKey, unique=True, null=True, GenericRelation, MPTTModel) are     *)
(* modelled by what the framework does for them.                           *)
(***************************************************************************)
EXTENDS Integers, Sequences, FiniteSets, TLC

VARIABLES
    db,            \* db[kind][id] is the stored row of that model class
    today,         \* datetime.date.today(), as a day number
    last_call,     \* the request just served: operation, arguments, outcome
    created_name   \* history: created_name[kind][id] is the name the row was created with

vars == <<db, today, last_call, created_name>>

(***************************************************************************)
(* Bounds of the model.                                                    *)
(***************************************************************************)
MaxSlugRows == 1       \* rows per table, slug specification
MaxPersons == 2        \* Person rows, student specification
MaxStudents == 2       \* Student rows, student specification
MaxMinistryId == 2     \* national student numbers requests use
MaxDate == 2           \* the days requests use, and the last day of the model
MaxEnrolments == 2     \* rows per enrolment table, enrolment specification
MaxPages == 3          \* Page rows, page specification
MaxTreeId == 3         \* the largest tree_id a new root may take
MaxRght == 6           \* the largest rght a tree may reach
MaxCascadeRows == 5    \* rows in the database, cascade specification

None == 0              \* a null id, a null date, an unsaved instance's id
NoType == "None"       \* a null content_type

(***************************************************************************)
(* The schema.                                                             *)
(***************************************************************************)
Kinds ==
    {"Person", "School", "Student", "SchoolEnrolment",
     "SubjectGroup", "Subject", "Course", "Page", "Schedule", "Activity",
     "Assessment", "Grade", "Submission", "Attendance", "Enrolment", "Event"}

FK(field, to, null) == [field |-> field, to |-> to, null |-> null]

\* The foreign keys of each model class: field, target class, null=True.
ForeignKeys(k) ==
    CASE k = "Student" -> {FK("person", "Person", FALSE)}
      [] k = "SchoolEnrolment" -> {FK("school", "School", FALSE)}
      [] k = "Subject" -> {FK("group", "SubjectGroup", FALSE)}
      [] k = "Course" -> {FK("subject", "Subject", TRUE)}
      [] k = "Page" -> {FK("course", "Course", FALSE), FK("parent", "Page", TRUE)}
      [] k = "Grade" -> {FK("assessment", "Assessment", FALSE), FK("student", "Student", FALSE)}
      [] k = "Submission" -> {FK("assessment", "Assessment", FALSE), FK("student", "Student", FALSE)}
      [] k = "Schedule" -> {FK("course", "Course", FALSE)}
      [] k = "Attendance" -> {FK("activity", "Activity", FALSE), FK("student", "Student", FALSE)}
      [] k = "Enrolment" -> {FK("student", "Student", FALSE), FK("schedule", "Schedule", FALSE)}
      [] k = "Event" -> {FK("course", "Course", FALSE)}
      [] OTHER -> {}

UniqueFields_person(k) ==
    CASE k = "Student" -> {"person"}
      [] OTHER -> {}

UniqueFields_ministry_id(k) ==
    CASE k = "Student" -> {"ministry_id"}
      [] OTHER -> {}

\* The fields declared unique=True.
UniqueFields(k) ==
    CASE k = "Student" -> {"person", "ministry_id"}
      [] OTHER -> {}

GenericRelations_every_kind(k) == {"Assessment", "Page"}

\* The classes that declare a GenericRelation, and the class it reaches.
GenericRelations(k) ==
    CASE k = "Activity" -> {"Assessment"}
      [] OTHER -> {}

(***************************************************************************)
(* Tables.                                                                 *)
(***************************************************************************)
Max(S) == CHOOSE m \in S : \A n \in S : n <= m

\* The primary key an INSERT assigns: one past the largest key in the table.
NextId(tbl) == IF DOMAIN tbl = {} THEN 1 ELSE Max(DOMAIN tbl) + 1

Put(tbl, i, row) == [j \in DOMAIN tbl \cup {i} |-> IF j = i THEN row ELSE tbl[j]]

Restrict(tbl, ids) == [j \in ids |-> tbl[j]]

\* The column values of an instance: its fields but the primary key.
RowOf(self) == [f \in DOMAIN self \ {"id"} |-> self[f]]

\* The instance a query returns for a stored row.
Load(k, i) == [f \in DOMAIN db[k][i] \cup {"id"} |-> IF f = "id" THEN i ELSE db[k][i][f]]

\* The other columns declared without null=True that requests fill in.
NotNullFields(k) ==
    CASE k = "Student" -> {"ministry_id"}
      [] k = "Enrolment" -> {"start", "end"}
      [] k = "SchoolEnrolment" -> {"start"}
      [] OTHER -> {}

NotNullViolated(k, row) ==
    \/ \E f \in ForeignKeys(k) : ~f.null /\ row[f.field] = None
    \/ \E c \in NotNullFields(k) : row[c] = None

ForeignKeyViolated(d, k, row) ==
    \E f \in ForeignKeys(k) : row[f.field] # None /\ row[f.field] \notin DOMAIN d[f.to]

UniqueViolated(d, k, i, row) ==
    \E u \in UniqueFields(k) : \E j \in DOMAIN d[k] \ {i} : d[k][j][u] = row[u]

\* The database refuses the INSERT or UPDATE of row at key i.
IntegrityError(d, k, i, row) ==
    \/ NotNullViolated(k, row)
    \/ ForeignKeyViolated(d, k, row)
    \/ UniqueViolated(d, k, i, row)

\* A served request: what was called on which class with which instance, the
\* key of the row it wrote or deleted, whether it was accepted, and the rows
\* a delete collected.
Call(op, k, args, i, ok, gone) ==
    [op |-> op, kind |-> k, args |-> args, id |-> i, ok |-> ok, gone |-> gone]

\* models.Model.save(): INSERT when the instance has no id, UPDATE otherwise.
\* given is the instance as the caller built it, self the instance as the
\* class's save() hands it on.
\* d is the tables as the class's save() left them (db itself unless the class
\* is a tree).
Model_save(d, k, given, self) ==
    LET i == IF self.id = None THEN NextId(d[k]) ELSE self.id
        row == RowOf(self)
        ok == ~IntegrityError(d, k, i, row)
    IN  /\ db' = IF ok THEN [d EXCEPT ![k] = Put(@, i, row)] ELSE db
        /\ last_call' = Call("save", k, given, IF ok THEN i ELSE None, ok, {})
        /\ created_name' =
              IF ok /\ self.id = None /\ k \in DOMAIN created_name
              THEN [created_name EXCEPT ![k] = Put(@, i, self.name)]
              ELSE created_name
        /\ UNCHANGED today

\* The rows that reference a row of S: through a foreign key, or through the
\* (content_type, object_id) pair when the referenced class declares a
\* GenericRelation to the referencing class.
Related(d, S) ==
    UNION {{<<k, i>> : i \in {j \in DOMAIN d[k] :
                \/ \E f \in ForeignKeys(k) : <<f.to, d[k][j][f.field]>> \in S
                \/ \E t \in Kinds :
                      /\ k \in GenericRelations(t)
                      /\ d[k][j].content_type = t
                      /\ <<t, d[k][j].object_id>> \in S}} : k \in Kinds}

Collect_no_cascade(d, S) == S

\* The deletion collector: the rows deleted together with the rows of S.
RECURSIVE Collect(_, _)
Collect(d, S) ==
    LET more == S \cup Related(d, S)
    IN  IF more = S THEN S ELSE Collect(d, more)

Remaining(tbl, k, gone) == Restrict(tbl, {j \in DOMAIN tbl : <<k, j>> \notin gone})

\* models.Model.delete() of row i of class k, on the tables d.
Model_delete(d, k, i) ==
    LET gone == Collect(d, {<<k, i>>})
    IN  /\ db' = [t \in Kinds |-> Remaining(d[t], t, gone)]
        /\ last_call' = Call("delete", k, [id |-> i], i, TRUE, gone)
        /\ created_name' = [t \in DOMAIN created_name |-> Remaining(created_name[t], t, gone)]
        /\ UNCHANGED today

Delete(k) == \E i \in DOMAIN db[k] : Model_delete(db, k, i)

(***************************************************************************)
(* slugify, on names as sequences of characters.                           *)
(***************************************************************************)
LowerCase == {"a", "b", "e", "o", "l", "d"}
UpperCase == {"A", "B"}
Digits == {"1"}
WordChars == LowerCase \cup UpperCase \cup Digits \cup {"_"}
WhiteSpace == {" "}

\* NFKD, then encode('ascii', 'ignore'): an accented letter keeps its base letter.
ToAscii(c) == IF c = "é" THEN <<"e">> ELSE <<c>>

ToLower(c) == CASE c = "A" -> "a" [] c = "B" -> "b" [] OTHER -> c

RECURSIVE Normalize(_)
Normalize(s) == IF s = <<>> THEN <<>> ELSE ToAscii(Head(s)) \o Normalize(Tail(s))

KeepChar(c) == c \in WordChars \cup WhiteSpace \cup {"-"}

RECURSIVE LStrip(_)
LStrip(s) == IF s # <<>> /\ Head(s) \in WhiteSpace THEN LStrip(Tail(s)) ELSE s

RECURSIVE RStrip(_)
RStrip(s) ==
    IF s # <<>> /\ s[Len(s)] \in WhiteSpace THEN RStrip(SubSeq(s, 1, Len(s) - 1)) ELSE s

Lower(s) == [i \in 1..Len(s) |-> ToLower(s[i])]

\* re.sub('[-\s]+', '-', value)
RECURSIVE Hyphenate(_)
Hyphenate(s) ==
    IF s = <<>> THEN <<>>
    ELSE IF Head(s) \in WhiteSpace \cup {"-"}
         THEN IF Len(s) > 1 /\ s[2] \in WhiteSpace \cup {"-"}
              THEN Hyphenate(Tail(s))
              ELSE <<"-">> \o Hyphenate(Tail(s))
         ELSE <<Head(s)>> \o Hyphenate(Tail(s))

slugify(value) ==
    Hyphenate(Lower(RStrip(LStrip(SelectSeq(Normalize(value), KeepChar)))))

(***************************************************************************)
(* SubjectGroup and Subject.                                               *)
(***************************************************************************)
\* The names requests use: one that only changes case, one that is stripped,
\* loses punctuation and an accent and has its run of hyphens and spaces
\* collapsed, and one that slugifies like the first.
Names ==
    { <<"A", "b">>,
      <<" ", "B", "!", "-", " ", "é", " ">>,
      <<"a", "b">> }

\* What a caller may leave in slug before the first save.
GivenSlugs == {<<>>, <<"o", "l", "d">>}

SubjectGroup_save_always(self) == [self EXCEPT !.slug = slugify(self.name)]

SubjectGroup_save_never(self) == self

\* SubjectGroup.save(), up to its call of the base class's save().
SubjectGroup_save(self) ==
    IF self.id = None THEN [self EXCEPT !.slug = slugify(self.name)] ELSE self

\* Subject.save(), up to its call of the base class's save().
Subject_save(self) ==
    IF self.id = None THEN [self EXCEPT !.slug = slugify(self.name)] ELSE self

CreateSubjectGroup(cap, names, slugs) ==
    /\ NextId(db.SubjectGroup) <= cap
    /\ \E n \in names, s \in slugs :
          LET given == [id |-> None, name |-> n, slug |-> s]
          IN  Model_save(db, "SubjectGroup", given, SubjectGroup_save(given))

RenameSubjectGroup(names) ==
    \E i \in DOMAIN db.SubjectGroup, n \in names :
        LET given == [Load("SubjectGroup", i) EXCEPT !.name = n]
        IN  Model_save(db, "SubjectGroup", given, SubjectGroup_save(given))

CreateSubject(cap, names, slugs) ==
    /\ NextId(db.Subject) <= cap
    /\ \E n \in names, s \in slugs, g \in DOMAIN db.SubjectGroup :
          LET given == [id |-> None, name |-> n, slug |-> s, group |-> g]
          IN  Model_save(db, "Subject", given, Subject_save(given))

RenameSubject(names) ==
    \E i \in DOMAIN db.Subject, n \in names :
        LET given == [Load("Subject", i) EXCEPT !.name = n]
        IN  Model_save(db, "Subject", given, Subject_save(given))

(***************************************************************************)
(* Person (kapua.people, referenced by Student.person) and Student.        *)
(***************************************************************************)
CreatePerson(cap) ==
    /\ NextId(db.Person) <= cap
    /\ LET given == [id |-> None, first_name |-> "F", last_name |-> "L"]
       IN  Model_save(db, "Person", given, given)

CreateStudent(cap, persons, numbers) ==
    /\ NextId(db.Student) <= cap
    /\ \E p \in persons, m \in numbers :
          LET given == [id |-> None, person |-> p, ministry_id |-> m]
          IN  Model_save(db, "Student", given, given)

UpdateStudent(persons, numbers) ==
    \E i \in DOMAIN db.Student, p \in persons, m \in numbers :
        LET given == [Load("Student", i) EXCEPT !.person = p, !.ministry_id = m]
        IN  Model_save(db, "Student", given, given)

(***************************************************************************)
(* Course, Schedule, the two Enrolment classes, School.                    *)
(***************************************************************************)
CreateCourse(cap, subjects) ==
    /\ NextId(db.Course) <= cap
    /\ \E s \in subjects :
          LET given == [id |-> None, name |-> <<"c">>, subject |-> s]
          IN  Model_save(db, "Course", given, given)

CreateSchedule(cap) ==
    /\ NextId(db.Schedule) <= cap
    /\ \E c \in DOMAIN db.Course :
          LET given == [id |-> None, course |-> c]
          IN  Model_save(db, "Schedule", given, given)

\* courses.models.Enrolment
CreateEnrolment(cap, starts, ends) ==
    /\ NextId(db.Enrolment) <= cap
    /\ \E st \in DOMAIN db.Student, sc \in DOMAIN db.Schedule, s \in starts, e \in ends :
          LET given == [id |-> None, student |-> st, schedule |-> sc, start |-> s, end |-> e]
          IN  Model_save(db, "Enrolment", given, given)

UpdateEnrolment(starts, ends) ==
    \E i \in DOMAIN db.Enrolment, s \in starts, e \in ends :
        LET given == [Load("Enrolment", i) EXCEPT !.start = s, !.end = e]
        IN  Model_save(db, "Enrolment", given, given)

CreateSchool(cap) ==
    /\ NextId(db.School) <= cap
    /\ LET given == [id |-> None, name |-> <<"s">>]
       IN  Model_save(db, "School", given, given)

\* students.models.Enrolment
CreateSchoolEnrolment(cap, starts, ends) ==
    /\ NextId(db.SchoolEnrolment) <= cap
    /\ \E sc \in DOMAIN db.School, s \in starts, e \in ends :
          LET given == [id |-> None, school |-> sc, start |-> s, end |-> e]
          IN  Model_save(db, "SchoolEnrolment", given, given)

(***************************************************************************)
(* Page: a tree kept by django-mptt (class Page(MPTTModel), parent a        *)
(* TreeForeignKey).  Each row carries tree_id, lft, rght and level; the    *)
(* operators below are the manager's statements on the Page table pg.      *)
(***************************************************************************)
next_tree_id(pg) ==
    IF DOMAIN pg = {} THEN 1 ELSE Max({pg[j].tree_id : j \in DOMAIN pg}) + 1

manage_space_none(pg, size, target, tree) == pg

\* _manage_space: open (size > 0) or close (size < 0) a gap right of target.
manage_space(pg, size, target, tree) ==
    [j \in DOMAIN pg |->
        IF pg[j].tree_id = tree
        THEN [pg[j] EXCEPT !.lft = IF @ > target THEN @ + size ELSE @,
                           !.rght = IF @ > target THEN @ + size ELSE @]
        ELSE pg[j]]

Within(x, node) == x >= node.lft /\ x <= node.rght

Width(node) == node.rght - node.lft + 1

\* insert_node(node, target, position='last-child'): the table and the node.
insert_node(pg, node, target) ==
    IF target = None
    THEN [pg |-> pg,
          node |-> [node EXCEPT !.tree_id = next_tree_id(pg), !.lft = 1, !.rght = 2,
                                !.level = 0]]
    ELSE LET t == pg[target]
         IN  [pg |-> manage_space(pg, 2, t.rght - 1, t.tree_id),
              node |-> [node EXCEPT !.tree_id = t.tree_id, !.lft = t.rght,
                                    !.rght = t.rght + 1, !.level = t.level + 1]]

\* _inter_tree_move_and_close_gap: the node's subtree leaves its tree for
\* new_tree, the rows to its right close the gap.
inter_tree_move_and_close_gap(pg, node, level_change, left_right_change, new_tree) ==
    [j \in DOMAIN pg |->
        IF pg[j].tree_id = node.tree_id
        THEN [pg[j] EXCEPT
                !.level = IF Within(pg[j].lft, node) THEN @ - level_change ELSE @,
                !.tree_id = IF Within(pg[j].lft, node) THEN new_tree ELSE @,
                !.lft = IF Within(@, node) THEN @ - left_right_change
                        ELSE IF @ > node.rght THEN @ - Width(node) ELSE @,
                !.rght = IF Within(@, node) THEN @ - left_right_change
                         ELSE IF @ > node.rght THEN @ - Width(node) ELSE @]
        ELSE pg[j]]

\* _make_child_root_node
make_child_root_node(pg, node) ==
    inter_tree_move_and_close_gap(pg, node, node.level, node.lft - 1, next_tree_id(pg))

\* _move_child_to_new_tree, position='last-child'
move_child_to_new_tree(pg, node, t) ==
    LET space_target == t.rght - 1
    IN  inter_tree_move_and_close_gap(
            manage_space(pg, Width(node), space_target, t.tree_id),
            node, node.level - t.level - 1, node.lft - space_target - 1, t.tree_id)

\* _move_root_node, position='last-child'
move_root_node(pg, node, t) ==
    LET space_target == t.rght - 1
        level_change == node.level - t.level - 1
        left_right_change == node.lft - space_target - 1
        spaced == manage_space(pg, Width(node), space_target, t.tree_id)
    IN  [j \in DOMAIN pg |->
            IF pg[j].tree_id = node.tree_id
            THEN [pg[j] EXCEPT !.level = @ - level_change,
                               !.lft = @ - left_right_change,
                               !.rght = @ - left_right_change,
                               !.tree_id = t.tree_id]
            ELSE spaced[j]]

\* _move_child_within_tree, position='last-child'
move_child_within_tree(pg, node, t) ==
    LET new_left == IF t.rght > node.rght THEN t.rght - Width(node) ELSE t.rght
        new_right == IF t.rght > node.rght THEN t.rght - 1 ELSE t.rght + Width(node) - 1
        left_boundary == IF node.lft < new_left THEN node.lft ELSE new_left
        right_boundary == IF node.rght > new_right THEN node.rght ELSE new_right
        left_right_change == new_left - node.lft
        gap_size == IF left_right_change > 0 THEN 0 - Width(node) ELSE Width(node)
        level_change == node.level - t.level - 1
        Shift(x) == IF Within(x, node) THEN x + left_right_change
                    ELSE IF x >= left_boundary /\ x <= right_boundary THEN x + gap_size
                    ELSE x
    IN  [j \in DOMAIN pg |->
            IF pg[j].tree_id = node.tree_id
            THEN [pg[j] EXCEPT
                    !.level = IF Within(pg[j].lft, node) THEN @ - level_change ELSE @,
                    !.lft = Shift(@),
                    !.rght = Shift(@)]
            ELSE pg[j]]

is_root_node(node) == node.parent = None

InvalidMove_self_only(node_id, node, target_id, t) == node_id = target_id

\* The moves _move_node refuses: a node under itself or under a descendant.
InvalidMove(node_id, node, target_id, t) ==
    \/ node_id = target_id
    \/ /\ node.tree_id = t.tree_id
       /\ \/ is_root_node(node)
          \/ node.lft < t.lft /\ t.lft < node.rght

\* _move_node(node, target, position='last-child') for a move that is valid.
move_node(pg, node, target) ==
    IF target = None THEN make_child_root_node(pg, node)
    ELSE IF is_root_node(node) THEN move_root_node(pg, node, pg[target])
    ELSE IF node.tree_id = pg[target].tree_id THEN move_child_within_tree(pg, node, pg[target])
    ELSE move_child_to_new_tree(pg, node, pg[target])

TreeFields == {"tree_id", "lft", "rght", "level"}

\* The instance with the tree fields of row.
WithTreeFields(self, row) ==
    [f \in DOMAIN self |-> IF f \in TreeFields THEN row[f] ELSE self[f]]

\* MPTTModel.save() of a Page: a new node is inserted as its parent's last
\* child (or as a new root), a node whose parent changed is moved, and the
\* row is then written by models.Model.save().
\* max_tree and max_rght bound the tree_id and rght values the model follows.
Page_save(given, max_tree, max_rght) ==
    LET pg == db.Page
    IN  IF given.id = None
        THEN LET r == insert_node(pg, given, given.parent)
             IN  /\ r.node.tree_id <= max_tree
                 /\ r.node.rght <= max_rght
                 /\ \A j \in DOMAIN r.pg : r.pg[j].rght <= max_rght
                 /\ Model_save([db EXCEPT !.Page = r.pg], "Page", given, r.node)
        ELSE LET node == pg[given.id]
             IN  IF given.parent = node.parent
                 THEN Model_save(db, "Page", given, given)
                 ELSE IF /\ given.parent # None
                         /\ InvalidMove(given.id, node, given.parent, pg[given.parent])
                 THEN /\ last_call' = Call("save", "Page", given, None, FALSE, {})
                      /\ UNCHANGED <<db, today, created_name>>
                 ELSE LET moved == move_node(pg, node, given.parent)
                      IN  /\ given.parent = None => next_tree_id(pg) <= max_tree
                          /\ \A j \in DOMAIN moved : moved[j].rght <= max_rght
                          /\ Model_save([db EXCEPT !.Page = moved], "Page", given,
                                        WithTreeFields(given, moved[given.id]))

\* MPTTModel.delete() of a Page: close the gap its subtree leaves, then
\* models.Model.delete().
Page_delete(i) ==
    LET node == db.Page[i]
    IN  Model_delete([db EXCEPT !.Page = manage_space(@, 0 - Width(node), node.rght,
                                                      node.tree_id)],
                     "Page", i)

CreatePage(cap, max_tree, max_rght, refs) ==
    /\ NextId(db.Page) <= cap
    /\ \E c \in DOMAIN db.Course, p \in DOMAIN db.Page \cup {None}, r \in refs :
          Page_save([id |-> None, course |-> c, parent |-> p,
                     content_type |-> r[1], object_id |-> r[2],
                     tree_id |-> None, lft |-> None, rght |-> None, level |-> None],
                    max_tree, max_rght)

\* A request that loads a Page, gives it another parent and saves it.
MovePage(max_tree, max_rght) ==
    \E i \in DOMAIN db.Page, p \in DOMAIN db.Page \cup {None} :
        /\ p # db.Page[i].parent
        /\ Page_save([Load("Page", i) EXCEPT !.parent = p], max_tree, max_rght)

DeletePage == \E i \in DOMAIN db.Page : Page_delete(i)

\* order_by(lft): the keys of S by ascending lft.
RECURSIVE OrderByLft(_, _)
OrderByLft(pg, S) ==
    IF S = {} THEN <<>>
    ELSE LET first == CHOOSE j \in S : \A o \in S : pg[j].lft <= pg[o].lft
         IN  <<first>> \o OrderByLft(pg, S \ {first})

\* Page.get_ancestors(): the keys of the rows the query returns, in its order.
get_ancestors(pg, i) ==
    IF is_root_node(pg[i]) THEN <<>>
    ELSE OrderByLft(pg, {j \in DOMAIN pg : /\ pg[j].tree_id = pg[i].tree_id
                                          /\ pg[j].lft < pg[i].lft
                                          /\ pg[j].rght > pg[i].rght})

(***************************************************************************)
(* Activity, Assessment, Grade, Submission, Attendance, Event.             *)
(***************************************************************************)
CreateActivity(cap) ==
    /\ NextId(db.Activity) <= cap
    /\ LET given == [id |-> None, subject |-> <<"a">>, track_attendance |-> TRUE]
       IN  Model_save(db, "Activity", given, given)

\* refs: the (content_type, object_id) pairs a request may attach to.
CreateAssessment(cap, refs) ==
    /\ NextId(db.Assessment) <= cap
    /\ \E r \in refs :
          LET given == [id |-> None, content_type |-> r[1], object_id |-> r[2]]
          IN  Model_save(db, "Assessment", given, given)

CreateGrade(cap) ==
    /\ NextId(db.Grade) <= cap
    /\ \E a \in DOMAIN db.Assessment, st \in DOMAIN db.Student :
          LET given == [id |-> None, assessment |-> a, student |-> st]
          IN  Model_save(db, "Grade", given, given)

CreateSubmission(cap) ==
    /\ NextId(db.Submission) <= cap
    /\ \E a \in DOMAIN db.Assessment, st \in DOMAIN db.Student :
          LET given == [id |-> None, assessment |-> a, student |-> st]
          IN  Model_save(db, "Submission", given, given)

CreateAttendance(cap) ==
    /\ NextId(db.Attendance) <= cap
    /\ \E a \in DOMAIN db.Activity, st \in DOMAIN db.Student :
          LET given == [id |-> None, activity |-> a, student |-> st]
          IN  Model_save(db, "Attendance", given, given)

CreateEvent(cap) ==
    /\ NextId(db.Event) <= cap
    /\ \E c \in DOMAIN db.Course :
          LET given == [id |-> None, course |-> c]
          IN  Model_save(db, "Event", given, given)

NextDay ==
    /\ today < MaxDate
    /\ today' = today + 1
    /\ last_call' = Call("tick", "None", [id |-> None], None, TRUE, {})
    /\ UNCHANGED <<db, created_name>>

get_current_students_by_schedule(self) ==
    {e \in DOMAIN db.Enrolment :
        /\ db.Enrolment[e].schedule = self
        /\ db.Enrolment[e].start <= today
        /\ db.Enrolment[e].end >= today}

\* Schedule.get_current_students(), self being the schedule's primary key:
\* the keys of the Enrolment rows the query returns.
get_current_students(self) ==
    {e \in DOMAIN db.Enrolment :
        /\ e = self
        /\ db.Enrolment[e].start <= today
        /\ db.Enrolment[e].end >= today}

(***************************************************************************)
(* Initial state: an empty database.                                       *)
(***************************************************************************)
Init ==
    /\ db = [k \in Kinds |-> <<>>]
    /\ today = 1
    /\ last_call = Call("init", "None", [id |-> None], None, TRUE, {})
    /\ created_name = [SubjectGroup |-> <<>>, Subject |-> <<>>]

(***************************************************************************)
(* Subjects and subject groups: creation and renames.                      *)
(***************************************************************************)
NextSlug ==
    \/ CreateSubjectGroup(MaxSlugRows, Names, GivenSlugs)
    \/ RenameSubjectGroup(Names)
    \/ CreateSubject(MaxSlugRows, Names, GivenSlugs)
    \/ RenameSubject(Names)
    \/ Delete("SubjectGroup")
    \/ Delete("Subject")

SpecSlug == Init /\ [][NextSlug]_vars

SlugKinds == {"SubjectGroup", "Subject"}

\* C1: the save() that creates a Subject or a SubjectGroup (the instance has
\* no id yet) stores slug = slugify(name), whatever slug held before the save.
C1_SlugSetAtCreation ==
    (last_call.op = "save" /\ last_call.kind \in SlugKinds /\ last_call.args.id = None)
        => /\ last_call.ok
           /\ db[last_call.kind][last_call.id].name = last_call.args.name
           /\ db[last_call.kind][last_call.id].slug = slugify(last_call.args.name)

\* A record was just created from an instance whose slug held something else
\* and whose name is not its own slug.
C1_Witness ==
    /\ last_call.op = "save" /\ last_call.kind \in SlugKinds /\ last_call.args.id = None
    /\ last_call.args.slug # <<>>
    /\ last_call.args.slug # slugify(last_call.args.name)
    /\ last_call.args.name # slugify(last_call.args.name)
    /\ db[last_call.kind][last_call.id].slug = slugify(last_call.args.name)

\* C2: however often an existing Subject or SubjectGroup is renamed and saved,
\* its slug stays the slugified name it was created with.
C2_SlugStableAcrossRenames ==
    \A k \in SlugKinds : \A i \in DOMAIN db[k] :
        db[k][i].slug = slugify(created_name[k][i])

\* A stored record has been renamed to a name that slugifies differently, and
\* the rename was the request just served.
C2_Witness ==
    /\ last_call.op = "save" /\ last_call.kind \in SlugKinds /\ last_call.args.id # None
    /\ last_call.ok
    /\ LET row == db[last_call.kind][last_call.id]
       IN  /\ row.name = last_call.args.name
           /\ row.name # created_name[last_call.kind][last_call.id]
           /\ slugify(row.name) # row.slug

(***************************************************************************)
(* Persons and students.                                                   *)
(***************************************************************************)
PersonChoices == 0..MaxPersons
MinistryIds == 1..MaxMinistryId

NextStudent ==
    \/ CreatePerson(MaxPersons)
    \/ CreateStudent(MaxStudents, PersonChoices, MinistryIds)
    \/ UpdateStudent(PersonChoices, MinistryIds)
    \/ Delete("Person")
    \/ Delete("Student")

SpecStudent == Init /\ [][NextStudent]_vars

StudentSaved == last_call.op = "save" /\ last_call.kind = "Student"

\* The other Student rows of d that hold value v in column c.
OthersWith(d, self, c, v) ==
    {j \in DOMAIN d.Student \ {self.id} : d.Student[j][c] = v}

UniqueIn(d, c) ==
    \A i, j \in DOMAIN d.Student : d.Student[i][c] = d.Student[j][c] => i = j

\* C3: no two Students ever share a ministry_id, and a save (insert or
\* update) that would give a Student the ministry_id of another Student is
\* rejected and leaves the stored students as they were.
C3_MinistryIdUnique ==
    [][/\ UniqueIn(db', "ministry_id")
       /\ (StudentSaved' /\ OthersWith(db, last_call'.args, "ministry_id",
                                        last_call'.args.ministry_id) # {})
             => (~last_call'.ok /\ db' = db)]_vars

\* A save was just refused only because of its ministry_id: its person exists
\* and has no student yet.
C3_Witness ==
    /\ StudentSaved /\ ~last_call.ok
    /\ db.Student # <<>>
    /\ OthersWith(db, last_call.args, "ministry_id", last_call.args.ministry_id) # {}
    /\ last_call.args.person \in DOMAIN db.Person
    /\ OthersWith(db, last_call.args, "person", last_call.args.person) = {}

\* C9: every Student has a person, no two Students ever share one, and a
\* save that would give a Student the Person of another Student is rejected.
C9_OneStudentPerPerson ==
    [][/\ \A i \in DOMAIN db'.Student : db'.Student[i].person # None
       /\ UniqueIn(db', "person")
       /\ (StudentSaved' /\ OthersWith(db, last_call'.args, "person",
                                        last_call'.args.person) # {})
             => (~last_call'.ok /\ db' = db)]_vars

\* A new Student was just refused only because its Person already has one.
C9_Witness ==
    /\ StudentSaved /\ ~last_call.ok /\ last_call.args.id = None
    /\ last_call.args.person \in DOMAIN db.Person
    /\ OthersWith(db, last_call.args, "person", last_call.args.person) # {}
    /\ OthersWith(db, last_call.args, "ministry_id", last_call.args.ministry_id) = {}

(***************************************************************************)
(* Enrolments and the schedule's current students.                         *)
(***************************************************************************)
Dates == 1..MaxDate
DatesOrNone == 0..MaxDate

NextEnrol ==
    \/ CreatePerson(1)
    \/ CreateStudent(1, DOMAIN db.Person, {1})
    \/ CreateCourse(1, {None})
    \/ CreateSchedule(MaxEnrolments)
    \/ CreateEnrolment(MaxEnrolments, Dates, DatesOrNone)
    \/ UpdateEnrolment(Dates, DatesOrNone)
    \/ CreateSchool(1)
    \/ CreateSchoolEnrolment(MaxEnrolments, Dates, DatesOrNone)
    \/ NextDay

SpecEnrol == Init /\ [][NextEnrol]_vars

\* C4: every stored Enrolment, of either class, with an end has start <= end.
C4_StartNotAfterEnd ==
    \A k \in {"Enrolment", "SchoolEnrolment"} : \A i \in DOMAIN db[k] :
        db[k][i].end # None => db[k][i].start <= db[k][i].end

\* C8: get_current_students of a schedule returns exactly the enrolments of
\* that schedule whose [start, end] holds today.
C8_CurrentStudentsOfSchedule ==
    \A s \in DOMAIN db.Schedule :
        get_current_students(s) = get_current_students_by_schedule(s)

(***************************************************************************)
(* Pages.                                                                  *)
(***************************************************************************)
NoRef == {<<NoType, None>>}

\* One Course holds the pages: the tree library never reads Page.course, and
\* deleting the Course is what removes pages without Page.delete().
NextPage ==
    \/ CreateCourse(1, {None})
    \/ CreatePage(MaxPages, MaxTreeId, MaxRght, NoRef)
    \/ MovePage(MaxTreeId, MaxRght)
    \/ DeletePage
    \/ Delete("Course")

SpecPage == Init /\ [][NextPage]_vars

\* The pages reached from Page i by following parent links, n links at most.
RECURSIVE Above(_, _, _)
Above(pg, i, n) ==
    IF n = 0 \/ pg[i].parent = None \/ pg[i].parent \notin DOMAIN pg THEN {}
    ELSE {pg[i].parent} \cup Above(pg, pg[i].parent, n - 1)

AncestorsByParent(pg, i) == Above(pg, i, Cardinality(DOMAIN pg))

DescendantsByParent(pg, i) == {j \in DOMAIN pg : i \in AncestorsByParent(pg, j)}

PageSaved == last_call.op = "save" /\ last_call.kind = "Page"

\* C5: following parent links from a Page never returns to it, and a save
\* that would set a Page's parent to itself or to one of its descendants is
\* rejected.
C5_PageNeverItsOwnAncestor ==
    [][/\ \A i \in DOMAIN db'.Page : i \notin AncestorsByParent(db'.Page, i)
       /\ (/\ PageSaved'
           /\ last_call'.args.id # None
           /\ last_call'.args.parent \in
                 {last_call'.args.id} \cup DescendantsByParent(db.Page, last_call'.args.id))
             => (~last_call'.ok /\ db' = db)]_vars

\* A save that would have put a Page under a descendant that is not one of
\* its children was just refused.
C5_Witness ==
    /\ PageSaved /\ ~last_call.ok /\ last_call.args.id # None
    /\ last_call.args.parent \in DescendantsByParent(db.Page, last_call.args.id)
    /\ db.Page[last_call.args.parent].parent # last_call.args.id

\* C6: the ancestors of every Page come root first: the first has no parent,
\* each next one is a child of the one before, the last is the Page's parent.
C6_AncestorsRootToLeaf ==
    \A i \in DOMAIN db.Page :
        LET pg == db.Page
            anc == get_ancestors(pg, i)
        IN  IF pg[i].parent = None THEN anc = <<>>
            ELSE /\ Len(anc) >= 1
                 /\ pg[anc[1]].parent = None
                 /\ \A n \in 1..(Len(anc) - 1) : pg[anc[n + 1]].parent = anc[n]
                 /\ anc[Len(anc)] = pg[i].parent

\* A Page was just moved and some Page now has two ancestors or more.
C6_Witness ==
    /\ PageSaved /\ last_call.ok /\ last_call.args.id # None
    /\ \E i \in DOMAIN db.Page : Len(get_ancestors(db.Page, i)) >= 2

(***************************************************************************)
(* Deletion across the whole schema.                                       *)
(***************************************************************************)
TotalRows == LET RECURSIVE Sum(_)
                 Sum(S) == IF S = {} THEN 0
                           ELSE LET k == CHOOSE x \in S : TRUE
                                IN  Cardinality(DOMAIN db[k]) + Sum(S \ {k})
             IN  Sum(Kinds)

Room == TotalRows < MaxCascadeRows

\* The rows a table may hold in this specification: one, and two pages (so
\* that Page.parent is followed) and two assessments (so that two attach to
\* entities of different classes).
Cap(k) == IF k \in {"Page", "Assessment"} THEN 2 ELSE 1

AttachableKinds == {"Course", "Page", "Activity"}
Refs == {<<k, i>> : k \in AttachableKinds, i \in {1}}

NextCascade ==
    \/ Room /\ CreatePerson(Cap("Person"))
    \/ Room /\ CreateStudent(Cap("Student"), DOMAIN db.Person, {NextId(db.Student)})
    \/ Room /\ CreateSubjectGroup(Cap("SubjectGroup"), {<<"A", "b">>}, {<<>>})
    \/ Room /\ CreateSubject(Cap("Subject"), {<<"A", "b">>}, {<<>>})
    \/ Room /\ CreateCourse(Cap("Course"), DOMAIN db.Subject \cup {None})
    \/ Room /\ CreatePage(Cap("Page"), MaxTreeId, MaxRght, Refs \cup NoRef)
    \/ Room /\ CreateSchedule(Cap("Schedule"))
    \/ Room /\ CreateActivity(Cap("Activity"))
    \/ Room /\ CreateAssessment(Cap("Assessment"), Refs)
    \/ Room /\ CreateGrade(Cap("Grade"))
    \/ Room /\ CreateSubmission(Cap("Submission"))
    \/ Room /\ CreateAttendance(Cap("Attendance"))
    \/ Room /\ CreateEnrolment(Cap("Enrolment"), {1}, {1})
    \/ Room /\ CreateEvent(Cap("Event"))
    \/ DeletePage
    \/ \E k \in Kinds \ {"Page", "School", "SchoolEnrolment"} : Delete(k)

SpecCascade == Init /\ [][NextCascade]_vars

Deleted(k) == DOMAIN db[k] \ DOMAIN db'[k]

Targeted(k, i) == last_call'.kind = k /\ last_call'.id = i

\* A foreign key of row i of class k referenced a row this step deleted.
ForeignKeyCascaded(k, i) ==
    \E f \in ForeignKeys(k) : db[k][i][f.field] \in Deleted(f.to)

\* Row i of class k attaches to a row of class t this step deleted.
AttachedToDeleted(k, i, t) ==
    db[k][i].content_type = t /\ db[k][i].object_id \in Deleted(t)

\* C7 as stated: a delete never removes an Assessment or a Page because the
\* entity it attaches to was deleted, whatever the entity's class.
C7_NoCascadeForAnyKind ==
    [][last_call'.op = "delete" =>
         \A k \in {"Assessment", "Page"} : \A i \in Deleted(k) :
             Targeted(k, i) \/ ForeignKeyCascaded(k, i)]_vars

\* C7, amended: a delete removes a Page only as its target or through
\* Page.course or Page.parent, and an Assessment only as its target or when
\* it attaches to a deleted Activity; every Assessment attached to a deleted
\* Activity is removed.
C7_NoCascadeButFromActivity ==
    [][last_call'.op = "delete" =>
         /\ \A i \in Deleted("Page") : Targeted("Page", i) \/ ForeignKeyCascaded("Page", i)
         /\ \A i \in DOMAIN db.Assessment :
               i \in Deleted("Assessment") <=>
                  (Targeted("Assessment", i) \/ AttachedToDeleted("Assessment", i, "Activity"))]_vars

\* The entity an Assessment and a Page attach to was just deleted, it was no
\* Activity, and both are still stored.
C7_Witness ==
    /\ last_call.op = "delete" /\ last_call.kind \in AttachableKinds \ {"Activity"}
    /\ last_call.id \notin DOMAIN db[last_call.kind]
    /\ \E a \in DOMAIN db.Assessment :
          /\ db.Assessment[a].content_type = last_call.kind
          /\ db.Assessment[a].object_id = last_call.id
    /\ \E p \in DOMAIN db.Page :
          /\ db.Page[p].content_type = last_call.kind
          /\ db.Page[p].object_id = last_call.id

\* C10: every non-null foreign key of a stored row refers to a stored row.
C10_ForeignKeysResolve ==
    \A k \in Kinds : \A i \in DOMAIN db[k] : \A f \in ForeignKeys(k) :
        db[k][i][f.field] # None => db[k][i][f.field] \in DOMAIN db[f.to]

\* A Course was just deleted, its Schedule and the Schedule's Enrolment went
\* with it, and the Student of that Enrolment is still stored.
C10_Witness ==
    /\ last_call.op = "delete" /\ last_call.kind = "Course"
    /\ \E sc \in 1..Cap("Schedule"), e \in 1..Cap("Enrolment") :
          {<<"Schedule", sc>>, <<"Enrolment", e>>} \subseteq last_call.gone
    /\ db.Student # <<>>
====
